---- MODULE Spec2Model ----
(***************************************************************************)
(* Model of backend/pocket.py: the alpha-sphere pocket detector            *)
(* (Scientific_Pockets) and its density clustering (cluster); and of the   *)
(* docking endpoints of backend/main.py (start_docking, its background     *)
(* task run() and docking_result).                                         *)
(*                                                                         *)
(* Lengths are integers in units of 0.05 Angstrom (1 A is 20, 4.5 A is 90, *)
(* the voxel edge 0.75 A is 15), so that every distance test of the code   *)
(* is an exact comparison of squares.  Scores are fixed-point numbers in   *)
(* thousandths (Scale), hydrophobicity values in tenths.                   *)
(***************************************************************************)
EXTENDS Integers, Sequences, FiniteSets, TLC

VARIABLES
    pc,        \* position in the code
    caller,    \* who called cluster(): "direct" or "Scientific_Pockets"
    \* ---- cluster(points, eps, min_pts) ----
    points,    \* sequence of points
    eps,
    min_pts,
    labels,    \* sequence of labels, -1 = unlabelled / noise
    i,         \* index of the outer for loop (1-based)
    cid,       \* next cluster id
    stack,     \* the worklist, a set of point indices
    \* ---- Scientific_Pockets(mol_or_pdb, min_radius, max_radius, eps, min_samples) ----
    mol,       \* the input: a sequence of atom records
    args,      \* [min_radius, max_radius, eps, min_samples]
    tri,       \* tri.simplices, once Delaunay has returned: for each simplex,
               \* what the linear solve and the norm give on its four vertices
    centers,   \* centres of the alpha-spheres kept
    radii,     \* their radii
    todo,      \* labels of set(labels) the scoring loop has not visited yet
    pockets,   \* the list of pockets built so far
    result,    \* what the call returned (or the exception that left it)
    visited,   \* the stages of Scientific_Pockets entered so far
    \* ---- main.py: start_docking, run(), docking_result ----
    loop,      \* the docking whose run() occupies the event loop, 0 when none
    dock,      \* for each docking id: how far its background task run() is
    files,     \* for each docking id: the content of its result.json
    reply,     \* the last answer of start_docking
    poll,      \* the request to docking_result in progress
    last,      \* for each docking id: the last answer the client received
    npolls,    \* the number of requests to docking_result made so far
    \* ---- keep_first_model(input_pdb, output_pdb) ----
    lines,         \* the lines of input_pdb, each a sequence of characters
    output_lines,  \* the lines collected so far
    in_model,      \* whether a MODEL line has been seen
    ln,            \* index of the for loop over lines (1-based)
    output_pdb,    \* the lines written to output_pdb, once written
    \* ---- upload_pdb and detect ----
    structure,     \* the atoms of the uploaded file as PDBParser reads them
    molecule_json  \* the molecule JSON file upload_pdb stored for the job

clusterVars == <<points, eps, min_pts, labels, i, cid, stack>>
pocketVars  == <<mol, args, tri, centers, radii, todo, pockets, result, visited>>
dockVars    == <<loop, dock, files, reply, poll, last, npolls>>
keepVars    == <<lines, output_lines, in_model, ln, output_pdb>>
detectVars  == <<structure, molecule_json>>
vars == <<pc, caller, clusterVars, pocketVars, dockVars, keepVars, detectVars>>

\* a variable that holds no value yet
NoValue == [none |-> TRUE]

\* --------------------------------------------------------------- bounds
MaxPoints == 4
MaxAtoms == 5
MaxSimplices == 3
MaxDockings == 2
MaxPolls == 2
MaxLines == 4

\* --------------------------------------------------------------- helpers
Max(a, b) == IF a >= b THEN a ELSE b
Min(a, b) == IF a <= b THEN a ELSE b
Range(s) == {s[k] : k \in DOMAIN s}

RECURSIVE SumSeq(_)
SumSeq(s) == IF s = <<>> THEN 0 ELSE Head(s) + SumSeq(Tail(s))

SeqsUpTo(S, n) == UNION {[1..m -> S] : m \in 0..n}

\* squared Euclidean distance of two points <<x, y, z>>
Dist2(p, q) ==
    (p[1] - q[1]) * (p[1] - q[1]) + (p[2] - q[2]) * (p[2] - q[2])
        + (p[3] - q[3]) * (p[3] - q[3])

\* cKDTree(pts).query_ball_point(p, r): the indices of the points within r of p
\* (distance <= r; nothing for a negative r)
query_ball_point(pts, p, r) ==
    IF r < 0 THEN {}
    ELSE {k \in 1..Len(pts) : Dist2(pts[k], p) <= r * r}

\* ------------------------------------------------------------- cluster()
\* pocket.py 65-68: the empty input returns at once, otherwise all labels are -1
ClusterEntry(pts, e, m, who) ==
    /\ points' = pts
    /\ eps' = e
    /\ min_pts' = m
    /\ caller' = who
    /\ labels' = [k \in 1..Len(pts) |-> -1]
    /\ cid' = 0
    /\ i' = 1
    /\ stack' = {}

\* a mutation of PopLabel: a popped point is never relabelled
PopLabelKeep(old, c) == old

\* a mutation of PopLabel: a popped point always takes the current cluster id
PopLabelOverwrite(old, c) == c

\* the label a point popped from the worklist gets (pocket.py 79-80)
PopLabel(old, c) == IF old # -1 THEN old ELSE c

\* a mutation of IsCore: min_pts neighbours are not enough
IsCoreStrict(nbrs, m) == Cardinality(nbrs) > m

\* whether a point with these neighbours expands the cluster (pocket.py 72, 82)
IsCore(nbrs, m) == Cardinality(nbrs) >= m

\* a mutation of Expands: a popped core point adds its neighbours even when it
\* was labelled before
ExpandsAlways(old, new, m) == IsCore(new, m)

\* whether a popped point adds its neighbours to the worklist: only a point that
\* was unlabelled when popped gets that far (pocket.py 79), and only a core
\* point adds them (pocket.py 82-83)
Expands(old, new, m) == old = -1 /\ IsCore(new, m)

\* a mutation of AlreadyLabelled: the outer loop does not skip labelled points
AlreadyLabelledNever(l) == FALSE

\* whether the outer loop skips a point (pocket.py 70)
AlreadyLabelled(l) == l # -1

\* pocket.py 69-76: one iteration of the outer for loop
ClusterFor ==
    /\ pc = "cluster_for"
    /\ i <= Len(points)
    /\ LET nbrs == query_ball_point(points, points[i], eps) IN
       \/ /\ AlreadyLabelled(labels[i])          \* line 70: continue
          /\ i' = i + 1
          /\ UNCHANGED <<pc, labels, stack>>
       \/ /\ ~AlreadyLabelled(labels[i])
          /\ ~IsCore(nbrs, min_pts)              \* lines 72-74: noise
          /\ labels' = [labels EXCEPT ![i] = -1]
          /\ i' = i + 1
          /\ UNCHANGED <<pc, stack>>
       \/ /\ ~AlreadyLabelled(labels[i])
          /\ IsCore(nbrs, min_pts)               \* lines 75-76: new cluster
          /\ stack' = nbrs
          /\ labels' = [labels EXCEPT ![i] = cid]
          /\ pc' = "cluster_while"
          /\ UNCHANGED i
    /\ UNCHANGED <<caller, points, eps, min_pts, cid, pocketVars>>
    /\ UNCHANGED <<dockVars, keepVars, detectVars>>

\* pocket.py 77-83: one iteration of the while loop; set.pop() removes an
\* arbitrary element
ClusterPop ==
    /\ pc = "cluster_while"
    /\ stack # {}
    /\ \E j \in stack :
         LET new == query_ball_point(points, points[j], eps) IN
         /\ labels' = [labels EXCEPT ![j] = PopLabel(labels[j], cid)]
         /\ stack' = IF Expands(labels[j], new, min_pts)
                     THEN (stack \ {j}) \cup new
                     ELSE stack \ {j}
    /\ UNCHANGED <<pc, caller, points, eps, min_pts, i, cid, pocketVars>>
    /\ UNCHANGED <<dockVars, keepVars, detectVars>>

\* pocket.py 77, 84: the worklist is empty, the cluster is complete
ClusterNext ==
    /\ pc = "cluster_while"
    /\ stack = {}
    /\ cid' = cid + 1
    /\ i' = i + 1
    /\ pc' = "cluster_for"
    /\ UNCHANGED <<caller, points, eps, min_pts, labels, stack, pocketVars>>
    /\ UNCHANGED <<dockVars, keepVars, detectVars>>

\* pocket.py 85: return labels to a direct caller
ClusterReturn ==
    /\ pc = "cluster_for"
    /\ i > Len(points)
    /\ caller = "direct"
    /\ pc' = "cluster_done"
    /\ UNCHANGED <<caller, clusterVars, pocketVars>>
    /\ UNCHANGED <<dockVars, keepVars, detectVars>>

\* ------------------------------------------------------ Delaunay outcomes
\* what the solve and the norm of circumsphere() can give on a simplex: the
\* solve raises; the radius is NaN; or a centre and a radius
Ca == <<30, 30, 30>>
Cb == <<110, 30, 30>>
SimplexOutcomes ==
    { [solved |-> FALSE],
      [solved |-> TRUE, c |-> Ca, r |-> 0, nan |-> TRUE],
      [solved |-> TRUE, c |-> Ca, r |-> 16, nan |-> FALSE],
      [solved |-> TRUE, c |-> Cb, r |-> 20, nan |-> FALSE] }

\* --------------------------------------------------------------- tables
\* pocket.py 7-12: Kyte-Doolittle hydrophobicity, in tenths
KD == [A |-> 18, R |-> -45, N |-> -35, D |-> -35, C |-> 25,
       Q |-> -35, E |-> -35, G |-> -4, H |-> -32, I |-> 45,
       L |-> 38, K |-> -39, M |-> 19, F |-> 28, P |-> -16,
       S |-> -8, T |-> -7, W |-> -9, Y |-> -13, V |-> 42]

\* pocket.py 15-20: 3-letter to 1-letter amino acid code
AA3 == [ALA |-> "A", ARG |-> "R", ASN |-> "N", ASP |-> "D", CYS |-> "C",
        GLN |-> "Q", GLU |-> "E", GLY |-> "G", HIS |-> "H", ILE |-> "I",
        LEU |-> "L", LYS |-> "K", MET |-> "M", PHE |-> "F", PRO |-> "P",
        SER |-> "S", THR |-> "T", TRP |-> "W", TYR |-> "Y", VAL |-> "V"]

\* str.upper() on the residue names the model uses
Upper(s) ==
    LET lower == [arg |-> "ARG", ser |-> "SER", leu |-> "LEU", gly |-> "GLY"]
    IN IF s \in DOMAIN lower THEN lower[s] ELSE s

Scale == 1000

\* math.tanh(n / 50) in thousandths, n = 1 .. 12
TanhTable == <<20, 40, 60, 80, 100, 119, 139, 159, 178, 197, 217, 235>>

\* math.exp(-(d / 10)^2 / (2 * 1.5^2)) in thousandths, d = 0 .. 60 (index d + 1)
ExpTable ==
    <<1000, 998, 991, 980, 965, 946, 923, 897, 867, 835, 801, 764, 726, 687,
      647, 607, 566, 526, 487, 448, 411, 375, 341, 309, 278, 249, 223, 198,
      175, 154, 135, 118, 103, 89, 77, 66, 56, 48, 40, 34, 29, 24, 20, 16,
      14, 11, 9, 7, 6, 5, 4, 3, 2, 2, 2, 1, 1, 1, 1, 0, 0>>

Abs(x) == IF x < 0 THEN -x ELSE x

\* --------------------------------------------------- Scientific_Pockets()
AtomFields == {"x", "y", "z", "chain", "resseq", "resname"}

\* pocket.py 47 and 169: the residue key of an atom
ResKey(a) == <<a.chain, a.resseq, a.resname>>

\* pocket.py 44-49 and 121: load_atoms() and the coords comprehension read these
\* fields of every atom; a missing one raises KeyError
RaisesKeyError(atoms) ==
    \E k \in 1..Len(atoms) : ~(AtomFields \subseteq DOMAIN atoms[k])

\* pocket.py 121
Coords(atoms) == [k \in 1..Len(atoms) |-> <<atoms[k].x, atoms[k].y, atoms[k].z>>]

\* a mutation of TooFew: the bound is off by one
TooFewBelow3(n) == n < 3

\* pocket.py 123
TooFew(n) == n < 4

Det3(u, v, w) ==
    u[1] * (v[2] * w[3] - v[3] * w[2])
      - u[2] * (v[1] * w[3] - v[3] * w[1])
      + u[3] * (v[1] * w[2] - v[2] * w[1])

Sub(p, q) == <<p[1] - q[1], p[2] - q[2], p[3] - q[3]>>

\* all points lie in one plane: scipy's Delaunay (Qhull) raises on such input
Coplanar(cs) ==
    {q \in (1..Len(cs)) \X (1..Len(cs)) \X (1..Len(cs)) \X (1..Len(cs)) :
        Det3(Sub(cs[q[2]], cs[q[1]]), Sub(cs[q[3]], cs[q[1]]),
             Sub(cs[q[4]], cs[q[1]])) # 0} = {}

\* a mutation of DelaunayFailed: no try/except around Delaunay()
DelaunayFailedUncaught == [pc |-> "raised", result |-> [exception |-> "QhullError"]]

\* pocket.py 128-129: what happens when Delaunay() raises
DelaunayFailed ==
    [pc |-> "done", result |-> [error |-> "Delaunay triangulation failed"]]

\* a mutation of circumsphere: when the solve fails, a fallback solution is
\* returned instead of None
circumsphereFallback(p) ==
    IF p.solved THEN [none |-> FALSE, c |-> p.c, r |-> p.r, nan |-> p.nan]
    ELSE [none |-> FALSE, c |-> Ca, r |-> 16, nan |-> FALSE]

\* pocket.py 52-61: circumsphere(p); p holds what np.linalg.solve and
\* np.linalg.norm give on the simplex: solve raising is caught and gives None
circumsphere(p) ==
    IF p.solved THEN [none |-> FALSE, c |-> p.c, r |-> p.r, nan |-> p.nan]
    ELSE [none |-> TRUE]

\* a mutation of KeepSphere: the upper bound is not tested
KeepSphereNoUpper(r, lo, hi) == lo <= r

\* a mutation of KeepSphere: the lower bound is exclusive
KeepSphereStrict(r, lo, hi) == lo < r /\ r <= hi

\* pocket.py 139
KeepSphere(r, lo, hi) == lo <= r /\ r <= hi

\* pocket.py 135-142: the spheres kept, in the order of tri.simplices
RECURSIVE AlphaSpheres(_, _, _)
AlphaSpheres(simplices, lo, hi) ==
    IF simplices = <<>> THEN <<>>
    ELSE LET s == circumsphere(Head(simplices))
             rest == AlphaSpheres(Tail(simplices), lo, hi)
         IN IF s.none \/ s.nan THEN rest                         \* line 138
            ELSE IF KeepSphere(s.r, lo, hi)
                 THEN <<[c |-> s.c, r |-> s.r]>> \o rest
                 ELSE rest

\* pocket.py 144-145: the result when no sphere is kept
EmptyResult == [pockets |-> <<>>, meta |-> [alpha_spheres |-> 0]]

\* a mutation of MembersOf: the mask also takes the spheres labelled -1
MembersOfWithNoise(ls, pid) == {k \in 1..Len(ls) : ls[k] = pid \/ ls[k] = -1}

\* pocket.py 157-159: the indices of the spheres labelled pid (mask = labels==pid)
MembersOf(ls, pid) == {k \in 1..Len(ls) : ls[k] = pid}

Members(pid) == MembersOf(labels, pid)

RECURSIVE SetToSeq(_)
SetToSeq(S) ==
    IF S = {} THEN <<>>
    ELSE LET m == CHOOSE x \in S : \A y \in S : x <= y
         IN <<m>> \o SetToSeq(S \ {m})

ResidueRadius == 90
ExposureRadius == 160

\* a mutation of PocketResOf: the atoms are taken within 8.0 of a centre
PocketResOfWide(cs, ls, pid) ==
    {ResKey(mol[a]) :
        a \in UNION {query_ball_point(Coords(mol), cs[k], ExposureRadius) :
                        k \in MembersOf(ls, pid)}}

\* pocket.py 164-170: the residue keys with an atom within 4.5 of a member
\* centre; cs are the centres, ls their labels
PocketResOf(cs, ls, pid) ==
    {ResKey(mol[a]) :
        a \in UNION {query_ball_point(Coords(mol), cs[k], ResidueRadius) :
                        k \in MembersOf(ls, pid)}}

PocketRes(pid) == PocketResOf(centers, labels, pid)

\* the orders in which a set can be iterated
Orders(S) ==
    {f \in [1..Cardinality(S) -> S] : \A a, b \in DOMAIN f : a # b => f[a] # f[b]}

\* a mutation of Hydros: the residue name is looked up as it is written
RECURSIVE HydrosNoUpper(_)
HydrosNoUpper(keys) ==
    IF keys = <<>> THEN <<>>
    ELSE LET three == Head(keys)[3]
             rest == HydrosNoUpper(Tail(keys))
         IN IF three \in DOMAIN AA3 /\ AA3[three] \in DOMAIN KD
            THEN <<KD[AA3[three]]>> \o rest
            ELSE rest

\* pocket.py 173-180: the hydrophobicity values of the residues that resolve
RECURSIVE Hydros(_)
Hydros(keys) ==
    IF keys = <<>> THEN <<>>
    ELSE LET three == Upper(Head(keys)[3])
             rest == Hydros(Tail(keys))
         IN IF three \in DOMAIN AA3 /\ AA3[three] \in DOMAIN KD
            THEN <<KD[AA3[three]]>> \o rest
            ELSE rest

\* pocket.py 180: polar residues have hydrophobicity <= -0.5
Polar(hydros) == Cardinality({k \in 1..Len(hydros) : hydros[k] <= -5})

\* pocket.py 181-186, in tenths
AvgH(hydros) == IF Len(hydros) = 0 THEN 0 ELSE SumSeq(hydros) \div Len(hydros)

\* pocket.py 181-186, in thousandths
PolarFrac(hydros) ==
    IF Len(hydros) = 0 THEN 0 ELSE (Polar(hydros) * Scale) \div Len(hydros)

SeqMax(s) == CHOOSE x \in Range(s) : \A y \in Range(s) : y <= x
SeqMin(s) == CHOOSE x \in Range(s) : \A y \in Range(s) : x <= y

\* pocket.py 189-196, in thousandths: 1 - (mean - min) / (max - min)
Exposure(counts) ==
    LET hi == SeqMax(counts)
        lo == SeqMin(counts)
        n == Len(counts)
    IN IF hi = lo THEN 0
       ELSE Scale - ((SumSeq(counts) - n * lo) * Scale) \div (n * (hi - lo))

\* np.arange(lo, hi, step)
Arange(lo, hi, step) ==
    IF hi <= lo THEN {} ELSE {lo + k * step : k \in 0..((hi - lo - 1) \div step)}

Resolution == 15
OneAngstrom == 20

\* pocket.py 93-101: the grid samples pts of voxel_volume
VoxelGrid(cs, rs, resolution) ==
    LET rmax == SeqMax(rs)
        xs == Arange(SeqMin([k \in 1..Len(cs) |-> cs[k][1]]) - rmax - OneAngstrom,
                     SeqMax([k \in 1..Len(cs) |-> cs[k][1]]) + rmax + OneAngstrom,
                     resolution)
        ys == Arange(SeqMin([k \in 1..Len(cs) |-> cs[k][2]]) - rmax - OneAngstrom,
                     SeqMax([k \in 1..Len(cs) |-> cs[k][2]]) + rmax + OneAngstrom,
                     resolution)
        zs == Arange(SeqMin([k \in 1..Len(cs) |-> cs[k][3]]) - rmax - OneAngstrom,
                     SeqMax([k \in 1..Len(cs) |-> cs[k][3]]) + rmax + OneAngstrom,
                     resolution)
    IN xs \X ys \X zs

\* a mutation of voxel_volume: no break after a sample is counted
voxel_volumeNoBreak(cs, rs, resolution) ==
    IF Len(cs) = 0 THEN 0
    ELSE LET rmax == SeqMax(rs)
             hits == {h \in VoxelGrid(cs, rs, resolution) \X (1..Len(cs)) :
                        /\ h[2] \in query_ball_point(cs, h[1], rmax)
                        /\ Dist2(h[1], cs[h[2]]) <= rs[h[2]] * rs[h[2]]}
         IN Cardinality(hits) * resolution * resolution * resolution

\* pocket.py 88-111: voxel_volume(centers, radii, resolution); cs and rs are
\* the member centres and radii. For each sample the spheres with a centre
\* within max(radii) are tested, and the sample is counted at the first hit.
voxel_volume(cs, rs, resolution) ==
    IF Len(cs) = 0 THEN 0
    ELSE LET rmax == SeqMax(rs)
             inside == {pt \in VoxelGrid(cs, rs, resolution) :
                          \E k \in query_ball_point(cs, pt, rmax) :
                              Dist2(pt, cs[k]) <= rs[k] * rs[k]}
         IN Cardinality(inside) * resolution * resolution * resolution

Mul(a, b) == (a * b) \div Scale

\* pocket.py 206: max(0, min(1, x))
Clamp01(x) == Max(0, Min(Scale, x))

\* a mutation of Druggability: the product is not clamped and the polarity
\* factor is polar_frac - 1
DruggabilityUnclamped(n, avg_h, exposure, polar_frac) ==
    Mul(Mul(Mul(TanhTable[n], ExpTable[Abs(avg_h - 15) + 1]),
            Scale - Abs(exposure - 400)),
        polar_frac - Scale)

\* pocket.py 202-206
Druggability(n, avg_h, exposure, polar_frac) ==
    LET size_score == TanhTable[n]
        hydro_pref == ExpTable[Abs(avg_h - 15) + 1]
        exposure_pref == Scale - Abs(exposure - 400)
        polarity_factor == Scale - polar_frac
    IN Clamp01(Mul(Mul(Mul(size_score, hydro_pref), exposure_pref), polarity_factor))

\* pocket.py 214: f"{res}:{chain}{num}"
FormatResidue(key) == key[3] \o ":" \o key[1] \o ToString(key[2])

\* pocket.py 157-219: the pocket of label pid, its residue set iterated in the
\* order `order`; cs and rs are the centres and radii, ls their labels
PocketOf(cs, rs, ls, pid, order) ==
    LET members == SetToSeq(MembersOf(ls, pid))
        n == Len(members)
        rad == [k \in 1..n |-> rs[members[k]]]
        sph == [k \in 1..n |-> cs[members[k]]]
        hydros == Hydros(order)
        counts == [k \in 1..n |->
                     Cardinality(query_ball_point(Coords(mol), sph[k], ExposureRadius))]
        avg_h == AvgH(hydros)
        polar_frac == PolarFrac(hydros)
        exposure == Exposure(counts)
    IN [id |-> pid,
        center |-> <<SumSeq([k \in 1..n |-> sph[k][1]]) \div n,
                     SumSeq([k \in 1..n |-> sph[k][2]]) \div n,
                     SumSeq([k \in 1..n |-> sph[k][3]]) \div n>>,
        n_spheres |-> n,
        avg_sphere_radius |-> SumSeq(rad) \div n,
        volume |-> voxel_volume(sph, rad, Resolution),
        residues |-> [k \in 1..Len(order) |-> FormatResidue(order[k])],
        avg_hydrophobicity |-> avg_h,
        polar_frac |-> polar_frac,
        solvent_exposure |-> exposure,
        druggability |-> Druggability(n, avg_h, exposure, polar_frac)]

Pocket(pid, order) == PocketOf(centers, radii, labels, pid, order)

\* list.sort(key=lambda x: -x["druggability"]): stable, descending druggability
RECURSIVE InsertSorted(_, _)
InsertSorted(sorted, p) ==
    IF sorted = <<>> THEN <<p>>
    ELSE IF -Head(sorted).druggability <= -p.druggability
         THEN <<Head(sorted)>> \o InsertSorted(Tail(sorted), p)
         ELSE <<p>> \o sorted

RECURSIVE SortPockets(_)
SortPockets(ps) ==
    IF ps = <<>> THEN <<>>
    ELSE InsertSorted(SortPockets(SubSeq(ps, 1, Len(ps) - 1)), ps[Len(ps)])

\* a mutation of ClusterCount: the highest label instead of the number of labels
ClusterCountMax(ls) == SeqMax(ls)

\* pocket.py 227: len(set(labels)) - (1 if -1 in labels else 0)
ClusterCount(ls) ==
    Cardinality(Range(ls)) - (IF -1 \in Range(ls) THEN 1 ELSE 0)

\* pocket.py 120-124: load the atoms, build coords, refuse fewer than 4 atoms
PocketsEntry ==
    /\ pc = "entry"
    /\ \/ /\ RaisesKeyError(mol)
          /\ pc' = "raised"
          /\ result' = [exception |-> "KeyError"]
       \/ /\ ~RaisesKeyError(mol)
          /\ TooFew(Len(mol))
          /\ pc' = "done"
          /\ result' = [error |-> "Too few atoms"]
       \/ /\ ~RaisesKeyError(mol)
          /\ ~TooFew(Len(mol))
          /\ pc' = "delaunay"
          /\ UNCHANGED result
    /\ visited' = visited \cup {"load"}
    /\ UNCHANGED <<caller, clusterVars, mol, args, tri, centers, radii, todo, pockets>>
    /\ UNCHANGED <<dockVars, keepVars, detectVars>>

\* pocket.py 126-129: Delaunay(coords) raises on a degenerate point set, and
\* otherwise gives at least one simplex
PocketsDelaunay ==
    /\ pc = "delaunay"
    /\ \/ /\ Coplanar(Coords(mol))
          /\ pc' = DelaunayFailed.pc
          /\ result' = DelaunayFailed.result
          /\ UNCHANGED tri
       \/ /\ ~Coplanar(Coords(mol))
          /\ tri' \in UNION {[1..m -> SimplexOutcomes] : m \in 1..MaxSimplices}
          /\ pc' = "spheres"
          /\ UNCHANGED result
    /\ visited' = visited \cup {"triangulation"}
    /\ UNCHANGED <<caller, clusterVars, mol, args, centers, radii, todo, pockets>>
    /\ UNCHANGED <<dockVars, keepVars, detectVars>>

\* pocket.py 131-150 and 65-68: filter the circumspheres; return at once when
\* none is kept, otherwise call cluster(centers, eps, min_samples)
PocketsSpheres ==
    /\ pc = "spheres"
    /\ LET spheres == AlphaSpheres(tri, args.min_radius, args.max_radius)
           cs == [k \in 1..Len(spheres) |-> spheres[k].c]
       IN /\ centers' = cs
          /\ radii' = [k \in 1..Len(spheres) |-> spheres[k].r]
          /\ \/ /\ Len(spheres) = 0
                /\ pc' = "done"
                /\ result' = EmptyResult
                /\ visited' = visited \cup {"filter"}
                /\ UNCHANGED <<caller, clusterVars>>
             \/ /\ Len(spheres) > 0
                /\ ClusterEntry(cs, args.eps, args.min_samples, "Scientific_Pockets")
                /\ pc' = "cluster_for"
                /\ visited' = visited \cup {"filter", "clustering"}
                /\ UNCHANGED result
    /\ UNCHANGED <<mol, args, tri, todo, pockets>>
    /\ UNCHANGED <<dockVars, keepVars, detectVars>>

\* pocket.py 85 and 150-155: cluster() returns; the scoring loop will iterate
\* over set(labels)
PocketsClustered ==
    /\ pc = "cluster_for"
    /\ i > Len(points)
    /\ caller = "Scientific_Pockets"
    /\ todo' = Range(labels)
    /\ pockets' = <<>>
    /\ pc' = "score"
    /\ UNCHANGED <<caller, clusterVars, mol, args, tri, centers, radii, result, visited>>
    /\ UNCHANGED <<dockVars, keepVars, detectVars>>

\* pocket.py 155-219: one iteration of `for pid in set(labels)`; the sets
\* set(labels) and pocket_res are iterated in an order the code does not fix
PocketsScore ==
    /\ pc = "score"
    /\ \E pid \in todo :
         /\ todo' = todo \ {pid}
         /\ \/ /\ pid = -1                                      \* line 156
               /\ UNCHANGED pockets
            \/ /\ pid # -1
               /\ \E order \in Orders(PocketRes(pid)) :
                     pockets' = Append(pockets, Pocket(pid, order))
    /\ visited' = visited \cup {"scoring"}
    /\ UNCHANGED <<pc, caller, clusterVars, mol, args, tri, centers, radii, result>>
    /\ UNCHANGED <<dockVars, keepVars, detectVars>>

\* pocket.py 221-229: sort and return
PocketsReturn ==
    /\ pc = "score"
    /\ todo = {}
    /\ result' = [pockets |-> SortPockets(pockets),
                  meta |-> [alpha_spheres |-> Len(centers),
                            clusters |-> ClusterCount(labels)]]
    /\ pc' = "done"
    /\ UNCHANGED <<caller, clusterVars, mol, args, tri, centers, radii, todo,
                   pockets, visited>>
    /\ UNCHANGED <<dockVars, keepVars, detectVars>>

\* ------------------------------------- docking.py: keep_first_model
\* keep_first_model has not been called
KeepIdle ==
    /\ lines = <<>>
    /\ output_lines = <<>>
    /\ in_model = FALSE
    /\ ln = 1
    /\ output_pdb = NoValue

\* str.startswith on sequences of characters
startswith(line, prefix) ==
    /\ Len(line) >= Len(prefix)
    /\ SubSeq(line, 1, Len(prefix)) = prefix

\* the prefixes keep_first_model tests for (docking.py 15, 19, 21)
MODEL == <<"M", "O", "D", "E", "L">>
ENDMDL == <<"E", "N", "D", "M", "D", "L">>

\* docking.py 15-17: a MODEL line met inside a model ends the loop before the
\* line is collected
StopsBefore(line, inside) == startswith(line, MODEL) /\ inside

\* docking.py 15-18: in_model after the first if statement
InModelAfter(line, inside) == inside \/ startswith(line, MODEL)

\* docking.py 19: whether the line is collected
Collected(line, inside) == inside \/ ~startswith(line, MODEL)

\* a mutation of StopsAfter: an ENDMDL line ends the loop wherever it stands
StopsAfterAnywhere(line, inside) == startswith(line, ENDMDL)

\* docking.py 21-22: an ENDMDL line inside a model ends the loop after the
\* line was collected
StopsAfter(line, inside) == startswith(line, ENDMDL) /\ inside

\* docking.py 14-22: one iteration of the for loop, or its end
KeepFor ==
    /\ pc = "keep_for"
    /\ \/ /\ ln > Len(lines)                          \* the loop is exhausted
          /\ pc' = "keep_write"
          /\ UNCHANGED <<output_lines, in_model, ln>>
       \/ /\ ln <= Len(lines)
          /\ StopsBefore(lines[ln], in_model)          \* line 17: break
          /\ pc' = "keep_write"
          /\ UNCHANGED <<output_lines, in_model, ln>>
       \/ /\ ln <= Len(lines)
          /\ ~StopsBefore(lines[ln], in_model)
          /\ LET line == lines[ln]
                 inside == InModelAfter(line, in_model)
             IN /\ in_model' = inside
                /\ output_lines' = IF Collected(line, inside)
                                    THEN Append(output_lines, line)
                                    ELSE output_lines
                /\ IF StopsAfter(line, inside)         \* line 22: break
                   THEN pc' = "keep_write" /\ UNCHANGED ln
                   ELSE ln' = ln + 1 /\ UNCHANGED pc
    /\ UNCHANGED <<lines, output_pdb>>
    /\ UNCHANGED <<caller, clusterVars, pocketVars, dockVars, detectVars>>

\* docking.py 23-24: the collected lines are written to output_pdb
KeepWrite ==
    /\ pc = "keep_write"
    /\ output_pdb' = output_lines
    /\ pc' = "keep_done"
    /\ UNCHANGED <<lines, output_lines, in_model, ln>>
    /\ UNCHANGED <<caller, clusterVars, pocketVars, dockVars, detectVars>>

\* ------------------------------------ main.py: upload_pdb and detect
\* nothing uploaded
DetectIdle ==
    /\ structure = <<>>
    /\ molecule_json = NoValue

\* pdb_utils.py 13-42: one record per atom of the structure, in file order;
\* the element falls back on the first character of the atom name
parse_pdb(st) ==
    [k \in 1..Len(st) |->
        [index |-> k,
         element |-> IF st[k].element # "" THEN st[k].element ELSE Head(st[k].name),
         name |-> st[k].name,
         residue_name |-> st[k].resname,
         residue_number |-> st[k].resseq,
         chain_id |-> st[k].chain,
         b_factor |-> st[k].bfactor,
         x |-> st[k].x, y |-> st[k].y, z |-> st[k].z]]

\* dict.get(key, default)
Get(d, key, default) == IF key \in DOMAIN d THEN d[key] ELSE default

\* main.py 194-203: the atoms detect builds from the stored ones; float() and
\* int() leave the numbers read from the JSON file as they are
cleaned_atoms(atoms) ==
    [k \in 1..Len(atoms) |->
        [x |-> Get(atoms[k], "x", 0),
         y |-> Get(atoms[k], "y", 0),
         z |-> Get(atoms[k], "z", 0),
         chain |-> Get(atoms[k], "chain", "_"),
         resseq |-> Get(atoms[k], "resseq", 0),
         resname |-> Get(atoms[k], "resname", "UNK")]]

\* pocket.py 113-117: the arguments detect leaves to their defaults
DefaultArgs == [min_radius |-> 36, max_radius |-> 120, eps |-> 80, min_samples |-> 6]

\* main.py 97-129: upload_pdb refuses a file whose name does not end in .pdb;
\* otherwise it parses the file and stores the molecule JSON of the new job
\* (the bonds and the metadata it stores with the atoms are not read by detect)
UploadPdb ==
    /\ pc = "upload"
    /\ \E is_pdb \in BOOLEAN :
          IF is_pdb
          THEN /\ molecule_json' = [atoms |-> parse_pdb(structure)]
               /\ pc' = "ready"
          ELSE /\ pc' = "upload_400"
               /\ UNCHANGED molecule_json
    /\ UNCHANGED <<caller, structure, clusterVars, pocketVars, dockVars, keepVars>>

\* main.py 179-209: detect answers 404 for a job or a molecule it does not
\* know; otherwise it loads the molecule JSON, rebuilds the atoms and calls
\* Scientific_Pockets(mol)
Detect ==
    /\ pc = "ready"
    /\ \E known \in BOOLEAN :
          IF known
          THEN /\ mol' = cleaned_atoms(molecule_json.atoms)
               /\ args' = DefaultArgs
               /\ caller' = "detect"
               /\ pc' = "entry"
          ELSE /\ pc' = "detect_404"
               /\ UNCHANGED <<mol, args, caller>>
    /\ UNCHANGED <<clusterVars, tri, centers, radii, todo, pockets, result, visited>>
    /\ UNCHANGED <<dockVars, keepVars, detectVars>>

\* ------------------------------------------------- main.py: docking
\* the docking ids uuid4 hands out, each one once
DockIds == 1..MaxDockings

\* no docking started, no request in progress
DockingIdle ==
    /\ loop = 0
    /\ dock = [d \in DockIds |-> [st |-> "free", outcome |-> "none", job |-> "none"]]
    /\ files = [d \in DockIds |-> "absent"]
    /\ reply = NoValue
    /\ poll = [st |-> "idle", d |-> 0, late |-> FALSE]
    /\ last = [d \in DockIds |-> "none"]
    /\ npolls = 0

\* the ids already handed out
UsedIds == {d \in DockIds : dock[d].st # "free"}

\* a mutation of RunStatus: a failed run is recorded with another status
RunStatusFailed(outcome) == IF outcome = "returned" THEN "done" ELSE "failed"

\* main.py 312-316 and 326-330: the status written to result.json when
\* run_docking_job returned and when it (or anything in the try block) raised
RunStatus(outcome) == IF outcome = "returned" THEN "done" ELSE "error"

\* main.py 350: os.path.exists(path) on result.json
ResultReady(content) == content # "absent"

\* main.py 259-342: start_docking on the event loop. An unknown job and a
\* missing receptor file are answered 404; otherwise the docking directory is
\* made, run() is scheduled with asyncio.create_task and the answer is queued
\* with the new docking id.
StartDocking ==
    /\ loop = 0
    /\ \E known \in BOOLEAN, receptor \in BOOLEAN :
          \/ /\ ~known
             /\ reply' = [code |-> 404, detail |-> "Job not found"]
             /\ UNCHANGED dock
          \/ /\ known
             /\ ~receptor
             /\ reply' = [code |-> 404, detail |-> "Receptor PDB not found"]
             /\ UNCHANGED dock
          \/ /\ known
             /\ receptor
             /\ UsedIds # DockIds
             /\ LET d == CHOOSE x \in DockIds \ UsedIds :
                            \A y \in DockIds \ UsedIds : x <= y
                IN /\ dock' = [dock EXCEPT ![d].st = "scheduled"]
                   /\ reply' = [status |-> "queued", docking_id |-> d]
    /\ UNCHANGED <<loop, files, poll, last, npolls>>
    /\ UNCHANGED <<pc, caller, clusterVars, pocketVars, keepVars, detectVars>>

\* main.py 284-290: the event loop starts run(); run() has no await, so it
\* keeps the loop until it ends
TaskStart(d) ==
    /\ loop = 0
    /\ dock[d].st = "scheduled"
    /\ loop' = d
    /\ dock' = [dock EXCEPT ![d].st = "running"]
    /\ UNCHANGED <<files, reply, poll, last, npolls>>
    /\ UNCHANGED <<pc, caller, clusterVars, pocketVars, keepVars, detectVars>>

\* main.py 290-309 and 325: run_docking_job returns its result or raises
\* (a tool is missing or exits with an error)
TaskDock(d) ==
    /\ loop = d
    /\ dock[d].st = "running"
    /\ \E outcome \in {"returned", "raised"} :
          dock' = [dock EXCEPT ![d].st = "docked", ![d].outcome = outcome]
    /\ UNCHANGED <<loop, files, reply, poll, last, npolls>>
    /\ UNCHANGED <<pc, caller, clusterVars, pocketVars, keepVars, detectVars>>

\* main.py 317 and 331: open(result.json, "w") creates the file, empty
TaskOpen(d) ==
    /\ loop = d
    /\ dock[d].st = "docked"
    /\ files' = [files EXCEPT ![d] = "empty"]
    /\ dock' = [dock EXCEPT ![d].st = "opened"]
    /\ UNCHANGED <<loop, reply, poll, last, npolls>>
    /\ UNCHANGED <<pc, caller, clusterVars, pocketVars, keepVars, detectVars>>

\* main.py 318 and 332: json.dump and the end of the with block
TaskWrite(d) ==
    /\ loop = d
    /\ dock[d].st = "opened"
    /\ files' = [files EXCEPT ![d] = RunStatus(dock[d].outcome)]
    /\ dock' = [dock EXCEPT ![d].st = "written"]
    /\ UNCHANGED <<loop, reply, poll, last, npolls>>
    /\ UNCHANGED <<pc, caller, clusterVars, pocketVars, keepVars, detectVars>>

\* main.py 320-324 and 334-338: the status is recorded in JOBS and saved;
\* run() ends and the event loop is free again
TaskEnd(d) ==
    /\ loop = d
    /\ dock[d].st = "written"
    /\ dock' = [dock EXCEPT ![d].st = "finished", ![d].job = RunStatus(dock[d].outcome)]
    /\ loop' = 0
    /\ UNCHANGED <<files, reply, poll, last, npolls>>
    /\ UNCHANGED <<pc, caller, clusterVars, pocketVars, keepVars, detectVars>>

\* the background task of docking d
Task(d) == TaskStart(d) \/ TaskDock(d) \/ TaskOpen(d) \/ TaskWrite(d) \/ TaskEnd(d)

\* main.py 345-346: the event loop accepts a request for the result of a
\* docking whose id the client was given and hands docking_result (a plain
\* def) to a worker thread
PollAccept(d) ==
    /\ loop = 0
    /\ poll.st = "idle"
    /\ npolls < MaxPolls
    /\ d \in UsedIds
    /\ poll' = [st |-> "in_thread", d |-> d, late |-> dock[d].st = "finished"]
    /\ npolls' = npolls + 1
    /\ UNCHANGED <<loop, dock, files, reply, last>>
    /\ UNCHANGED <<pc, caller, clusterVars, pocketVars, keepVars, detectVars>>

\* main.py 347-353: docking_result in its worker thread, whatever the event
\* loop is doing: HTTPException(404) when result.json does not exist,
\* FileResponse(path) when it does
PollCheck ==
    /\ poll.st = "in_thread"
    /\ poll' = [poll EXCEPT !.st = IF ResultReady(files[poll.d])
                                   THEN "found" ELSE "not_ready"]
    /\ UNCHANGED <<loop, dock, files, reply, last, npolls>>
    /\ UNCHANGED <<pc, caller, clusterVars, pocketVars, keepVars, detectVars>>

\* main.py 351 and 353: the event loop sends the answer: the 404, or the
\* content result.json has when FileResponse reads it
PollRespond ==
    /\ loop = 0
    /\ poll.st \in {"found", "not_ready"}
    /\ last' = [last EXCEPT ![poll.d] = IF poll.st = "not_ready"
                                        THEN "404 Result not ready"
                                        ELSE files[poll.d]]
    /\ poll' = [st |-> "idle", d |-> 0, late |-> FALSE]
    /\ UNCHANGED <<loop, dock, files, reply, npolls>>
    /\ UNCHANGED <<pc, caller, clusterVars, pocketVars, keepVars, detectVars>>

\* ------------------------------------ specification of Scientific_Pockets
\* where the atoms of an input sit: a general layout and one in the plane z = 0
GeneralSites ==
    << <<0, 0, 0>>, <<20, 0, 0>>, <<0, 60, 0>>, <<0, 0, 60>>, <<-60, 30, 30>>,
       <<400, 0, 0>>, <<60, 60, 0>>, <<400, 60, 0>> >>
PlanarSites ==
    << <<0, 0, 0>>, <<60, 0, 0>>, <<0, 60, 0>>, <<60, 60, 0>>, <<30, 30, 0>>,
       <<120, 0, 0>>, <<0, 120, 0>>, <<120, 120, 0>> >>

\* the residue names of residues 1 .. 3
ResSchemes ==
    { <<"arg", "HOH", "arg">>, <<"HOH", "HOH", "HOH">>, <<"LEU", "ser", "LEU">> }

\* atom k of an input: three consecutive atoms share a residue
AtomAt(k, sites, scheme) ==
    [x |-> sites[k][1], y |-> sites[k][2], z |-> sites[k][3],
     chain |-> "A", resseq |-> (k + 2) \div 3, resname |-> scheme[(k + 2) \div 3]]

WellFormedMols ==
    {[k \in 1..n |-> AtomAt(k, sites, scheme)] :
        n \in 0..MaxAtoms, sites \in {GeneralSites, PlanarSites},
        scheme \in ResSchemes}

Without(a, f) == [g \in DOMAIN a \ {f} |-> a[g]]

\* inputs whose last atom lacks a field
MalformedMols ==
    {[k \in 1..n |->
        IF k = n THEN Without(AtomAt(k, GeneralSites, <<"LEU", "ser", "LEU">>), f)
        ELSE AtomAt(k, GeneralSites, <<"LEU", "ser", "LEU">>)] :
        n \in 1..MaxAtoms, f \in {"x", "y", "z", "chain"}}

WellFormed(atoms) == \A k \in 1..Len(atoms) : AtomFields \subseteq DOMAIN atoms[k]

\* min_radius, max_radius, eps, min_samples; 80 (4.0 A) and 6 are the defaults
\* of eps and min_samples (pocket.py 117-118)
ArgInputs ==
    { [min_radius |-> 16, max_radius |-> 20, eps |-> 80, min_samples |-> 6],
      [min_radius |-> 16, max_radius |-> 20, eps |-> 79, min_samples |-> 1],
      [min_radius |-> 16, max_radius |-> 20, eps |-> 80, min_samples |-> 2],
      [min_radius |-> 16, max_radius |-> 20, eps |-> 79, min_samples |-> 2],
      [min_radius |-> 20, max_radius |-> 16, eps |-> 80, min_samples |-> 1],
      [min_radius |-> 16, max_radius |-> 19, eps |-> 80, min_samples |-> 1] }

Init ==
    /\ pc = "entry"
    /\ mol \in WellFormedMols \cup MalformedMols
    /\ args \in ArgInputs
    /\ caller = "none"
    /\ points = <<>>
    /\ eps = 0
    /\ min_pts = 0
    /\ labels = <<>>
    /\ i = 1
    /\ cid = 0
    /\ stack = {}
    /\ tri = <<>>
    /\ centers = <<>>
    /\ radii = <<>>
    /\ todo = {}
    /\ pockets = <<>>
    /\ result = NoValue
    /\ visited = {}
    /\ DockingIdle
    /\ KeepIdle
    /\ DetectIdle

Next ==
    \/ PocketsEntry
    \/ PocketsDelaunay
    \/ PocketsSpheres
    \/ ClusterFor
    \/ ClusterPop
    \/ ClusterNext
    \/ PocketsClustered
    \/ PocketsScore
    \/ PocketsReturn

Spec == Init /\ [][Next]_vars

\* ------------------------------------------- specification of cluster()
ClusterSites == {<<0, 0, 0>>, <<40, 0, 0>>, <<80, 0, 0>>, <<200, 0, 0>>}
EpsValues == {40, 80}
MinPtsValues == {0, 1, 2, 3}

\* five points in which BorderSites[3] is within 80 of the first two and of no
\* other point, the first two are more than 80 apart, and the last two are
\* within 80 of the first two only
BorderSites ==
    << <<-50, 0, 0>>, <<50, 0, 0>>, <<0, 62, 0>>, <<0, -31, 54>>, <<0, -31, -54>> >>

\* the five points in every order
BorderInputs ==
    {[k \in 1..5 |-> BorderSites[o[k]]] :
        o \in {f \in [1..5 -> 1..5] : \A a, b \in 1..5 : a # b => f[a] # f[b]}}

InitCluster ==
    /\ \/ /\ points \in SeqsUpTo(ClusterSites, MaxPoints)
          /\ eps \in EpsValues
          /\ min_pts \in MinPtsValues
       \/ /\ points \in BorderInputs
          /\ eps = 80
          /\ min_pts = 4
    /\ caller = "direct"
    /\ labels = [k \in 1..Len(points) |-> -1]
    /\ cid = 0
    /\ i = 1
    /\ stack = {}
    /\ pc = IF Len(points) = 0 THEN "cluster_done" ELSE "cluster_for"
    /\ mol = <<>>
    /\ args = NoValue
    /\ tri = <<>>
    /\ centers = <<>>
    /\ radii = <<>>
    /\ todo = {}
    /\ pockets = <<>>
    /\ result = NoValue
    /\ visited = {}
    /\ DockingIdle
    /\ KeepIdle
    /\ DetectIdle

NextCluster == ClusterFor \/ ClusterPop \/ ClusterNext \/ ClusterReturn

SpecCluster == InitCluster /\ [][NextCluster]_vars

\* the inputs of cluster() the termination of the loops is checked on: points
\* on three sites of the line, each within eps = 40 of the next one only, and
\* the five border points
TerminationSites == {<<0, 0, 0>>, <<40, 0, 0>>, <<80, 0, 0>>}

InitClusterFair ==
    /\ InitCluster
    /\ \/ Range(points) \subseteq TerminationSites /\ eps = 40
       \/ points \in BorderInputs

\* cluster() is sequential code: while a step is possible, one is taken
SpecClusterFair ==
    InitClusterFair /\ [][NextCluster]_vars /\ WF_vars(NextCluster)

\* ------------------------------------ specification of the docking flow
InitDocking ==
    /\ DockingIdle
    /\ KeepIdle
    /\ DetectIdle
    /\ pc = "idle"
    /\ caller = "none"
    /\ points = <<>>
    /\ eps = 0
    /\ min_pts = 0
    /\ labels = <<>>
    /\ i = 1
    /\ cid = 0
    /\ stack = {}
    /\ mol = <<>>
    /\ args = NoValue
    /\ tri = <<>>
    /\ centers = <<>>
    /\ radii = <<>>
    /\ todo = {}
    /\ pockets = <<>>
    /\ result = NoValue
    /\ visited = {}

NextDocking ==
    \/ StartDocking
    \/ \E d \in DockIds : TaskStart(d)
    \/ \E d \in DockIds : TaskDock(d)
    \/ \E d \in DockIds : TaskOpen(d)
    \/ \E d \in DockIds : TaskWrite(d)
    \/ \E d \in DockIds : TaskEnd(d)
    \/ \E d \in DockIds : PollAccept(d)
    \/ PollCheck
    \/ PollRespond

\* the event loop runs every task it was given (asyncio.create_task), and the
\* external programs run_docking_job starts come to an end
SpecDocking ==
    InitDocking /\ [][NextDocking]_vars /\ \A d \in DockIds : WF_vars(Task(d))

\* ------------------------------- specification of keep_first_model
\* a first and a second MODEL line, an ENDMDL line, an ATOM line and a line
\* that holds MODEL but does not start with it
KeepLines ==
    { <<"M", "O", "D", "E", "L", " ", "1">>,
      <<"M", "O", "D", "E", "L", " ", "2">>,
      <<"E", "N", "D", "M", "D", "L">>,
      <<"A", "T", "O", "M">>,
      <<"R", "E", "M", "A", "R", "K", " ", "M", "O", "D", "E", "L">> }

InitKeep ==
    /\ lines \in SeqsUpTo(KeepLines, MaxLines)
    /\ output_lines = <<>>
    /\ in_model = FALSE
    /\ ln = 1
    /\ output_pdb = NoValue
    /\ pc = "keep_for"
    /\ caller = "none"
    /\ points = <<>>
    /\ eps = 0
    /\ min_pts = 0
    /\ labels = <<>>
    /\ i = 1
    /\ cid = 0
    /\ stack = {}
    /\ mol = <<>>
    /\ args = NoValue
    /\ tri = <<>>
    /\ centers = <<>>
    /\ radii = <<>>
    /\ todo = {}
    /\ pockets = <<>>
    /\ result = NoValue
    /\ visited = {}
    /\ DockingIdle
    /\ DetectIdle

NextKeep == KeepFor \/ KeepWrite

SpecKeep == InitKeep /\ [][NextKeep]_vars

\* ------------------------- specification of upload_pdb followed by detect
\* the chains of residues 1 .. 3
ChainSchemes == { <<"A", "A", "A">>, <<"A", "B", "B">> }

\* atom k of an uploaded structure: three consecutive atoms share a residue,
\* and the parser found no element for the last of them
StructureAtom(k, sites, scheme, chains) ==
    [x |-> sites[k][1], y |-> sites[k][2], z |-> sites[k][3],
     chain |-> chains[(k + 2) \div 3], resseq |-> (k + 2) \div 3,
     resname |-> scheme[(k + 2) \div 3],
     name |-> IF k % 3 = 1 THEN <<"N">> ELSE <<"C", "A">>,
     element |-> IF k % 3 = 0 THEN "" ELSE IF k % 3 = 1 THEN "N" ELSE "C",
     bfactor |-> 0]

Structures ==
    {[k \in 1..n |-> StructureAtom(k, sites, scheme, chains)] :
        n \in 0..MaxAtoms, sites \in {GeneralSites, PlanarSites},
        scheme \in ResSchemes, chains \in ChainSchemes}

InitDetect ==
    /\ structure \in Structures
    /\ molecule_json = NoValue
    /\ pc = "upload"
    /\ caller = "none"
    /\ points = <<>>
    /\ eps = 0
    /\ min_pts = 0
    /\ labels = <<>>
    /\ i = 1
    /\ cid = 0
    /\ stack = {}
    /\ mol = <<>>
    /\ args = NoValue
    /\ tri = <<>>
    /\ centers = <<>>
    /\ radii = <<>>
    /\ todo = {}
    /\ pockets = <<>>
    /\ result = NoValue
    /\ visited = {}
    /\ DockingIdle
    /\ KeepIdle

\* upload_pdb, detect, and the start of Scientific_Pockets, where load_atoms
\* reads the residue key of every atom it was handed
NextDetect == UploadPdb \/ Detect \/ PocketsEntry

SpecDetect == InitDetect /\ [][NextDetect]_vars

\* ------------------------------------------------ density reachability
\* p has at least min_pts points within eps, itself counted
CorePoint(p) ==
    Cardinality({k \in 1..Len(points) : Dist2(points[k], points[p]) <= eps * eps})
        >= min_pts

\* the core points a chain of core points, consecutive ones within eps, links to S
RECURSIVE CoreClosure(_)
CoreClosure(S) ==
    LET more == {k \in 1..Len(points) :
                    /\ CorePoint(k)
                    /\ \E s \in S : Dist2(points[k], points[s]) <= eps * eps}
    IN IF more \subseteq S THEN S ELSE CoreClosure(S \cup more)

MutuallyReachable(a, b) ==
    CorePoint(a) /\ CorePoint(b) /\ b \in CoreClosure({a})

\* C1: when cluster() has returned, no two points that carry different
\* non-negative labels are mutually density-reachable (linked by a chain of
\* points, each with at least min_pts points within eps, consecutive ones
\* within eps of each other).
C1_ClustersSeparated ==
    pc = "cluster_done" =>
        \A a, b \in 1..Len(points) :
            (labels[a] >= 0 /\ labels[b] >= 0 /\ labels[a] # labels[b])
                => ~MutuallyReachable(a, b)

\* cluster() has returned two clusters, one of them a chain of core points
C1_Witness ==
    /\ pc = "cluster_done"
    /\ min_pts >= 2
    /\ \E a, b \in 1..Len(points) :
          labels[a] >= 0 /\ labels[b] >= 0 /\ labels[a] # labels[b]
    /\ \E a, b \in 1..Len(points) :
          a # b /\ points[a] # points[b] /\ MutuallyReachable(a, b)

\* ------------------------------------------------------ result shapes
PocketFields ==
    {"id", "center", "n_spheres", "avg_sphere_radius", "volume", "residues",
     "avg_hydrophobicity", "polar_frac", "solvent_exposure", "druggability"}

Returned == pc = "done"
IsError == DOMAIN result = {"error"}
IsFull == "pockets" \in DOMAIN result

\* C2: on well-formed atoms Scientific_Pockets never raises and returns either
\* an object whose only key is "error" (with "Delaunay triangulation failed"
\* when the triangulation of 4 or more atoms fails) or a result with "pockets"
\* and "meta", every pocket carrying all its fields; never "error" together
\* with "pockets".
C2_WellShapedResult ==
    WellFormed(mol) =>
        /\ pc # "raised"
        /\ Returned =>
              /\ \/ IsError
                 \/ /\ {"pockets", "meta"} \subseteq DOMAIN result
                    /\ "error" \notin DOMAIN result
                    /\ \A k \in 1..Len(result.pockets) :
                          DOMAIN result.pockets[k] = PocketFields
              /\ (Len(mol) >= 4 /\ tri = <<>>)
                    => result = [error |-> "Delaunay triangulation failed"]

\* the triangulation of 4 or more well-formed atoms has failed
C2_Witness ==
    /\ Returned
    /\ WellFormed(mol)
    /\ Len(mol) >= 4
    /\ tri = <<>>
    /\ result = [error |-> "Delaunay triangulation failed"]

\* C3: for 0 to 3 well-formed atoms and any parameters, Scientific_Pockets
\* returns exactly {"error": "Too few atoms"}, without raising and before
\* triangulation, clustering or scoring is attempted.
C3_TooFewAtoms ==
    (WellFormed(mol) /\ Len(mol) <= 3 /\ pc # "entry") =>
        /\ Returned
        /\ result = [error |-> "Too few atoms"]
        /\ visited = {"load"}

\* three well-formed atoms were refused
C3_Witness ==
    /\ Returned
    /\ WellFormed(mol)
    /\ Len(mol) = 3
    /\ result = [error |-> "Too few atoms"]

MissingCoordinate ==
    \E k \in 1..Len(mol) : ~({"x", "y", "z"} \subseteq DOMAIN mol[k])

\* C4: an atom record without a coordinate field (x, y or z) is surfaced as a
\* structured error result {"error": ...}; no exception leaves the function.
C4_MissingCoordinateIsError ==
    (MissingCoordinate /\ pc # "entry") => (Returned /\ "error" \in DOMAIN result)

\* the simplices of tri whose circumsphere passes the radius filter
PassingSimplices ==
    {k \in 1..Len(tri) :
        /\ tri[k].solved
        /\ ~tri[k].nan
        /\ args.min_radius <= tri[k].r
        /\ tri[k].r <= args.max_radius}

\* C5: a circumsphere is kept only if min_radius <= radius <= max_radius, both
\* inclusive: every sphere handed to clustering and scoring has its radius in
\* that range, every pocket's avg_sphere_radius lies in it, and
\* meta.alpha_spheres is the number of simplices that passed the filter.
C5_RadiusFilter ==
    "filter" \in visited =>
        /\ \A k \in 1..Len(radii) :
              args.min_radius <= radii[k] /\ radii[k] <= args.max_radius
        /\ Len(centers) = Cardinality(PassingSimplices)
        /\ Len(radii) = Len(centers)
        /\ "clustering" \in visited => points = centers
        /\ \A k \in 1..Len(pockets) :
              /\ args.min_radius <= pockets[k].avg_sphere_radius
              /\ pockets[k].avg_sphere_radius <= args.max_radius
        /\ (Returned /\ IsFull) =>
              /\ result.meta.alpha_spheres = Cardinality(PassingSimplices)
              /\ \A k \in 1..Len(result.pockets) :
                    /\ args.min_radius <= result.pockets[k].avg_sphere_radius
                    /\ result.pockets[k].avg_sphere_radius <= args.max_radius

\* a pocket was returned whose spheres have radius exactly min_radius and
\* exactly max_radius
C5_Witness ==
    /\ Returned
    /\ IsFull
    /\ Len(result.pockets) >= 1
    /\ \E k \in 1..Len(radii) : radii[k] = args.min_radius
    /\ \E k \in 1..Len(radii) : radii[k] = args.max_radius

\* C6: every pocket has 0 <= druggability <= 1, whatever the cluster size,
\* the residue composition and the per-sphere atom counts.
C6_DruggabilityInUnitInterval ==
    /\ \A k \in 1..Len(pockets) :
          0 <= pockets[k].druggability /\ pockets[k].druggability <= Scale
    /\ (Returned /\ IsFull) =>
          \A k \in 1..Len(result.pockets) :
              /\ 0 <= result.pockets[k].druggability
              /\ result.pockets[k].druggability <= Scale

\* a pocket with a positive score, unequal atom counts and a polar residue
C6_Witness ==
    /\ Returned
    /\ IsFull
    /\ \E k \in 1..Len(result.pockets) :
          /\ result.pockets[k].druggability > 0
          /\ result.pockets[k].solvent_exposure > 0
          /\ result.pockets[k].polar_frac > 0

\* C7: every non-error result carries meta with both keys alpha_spheres and
\* clusters, clusters being the number of distinct non-noise labels, also when
\* no circumsphere survives the radius filter (pockets empty, alpha_spheres 0).
C7_MetaHasBothKeys ==
    (Returned /\ IsFull) =>
        /\ DOMAIN result.meta = {"alpha_spheres", "clusters"}
        /\ result.meta.clusters = Cardinality(Range(labels) \ {-1})
        /\ Len(centers) = 0 => (result.pockets = <<>> /\ result.meta.alpha_spheres = 0)

\* C8: the returned pockets are ordered by druggability, non-increasing, and
\* not truncated: one pocket for each distinct non-noise label, so that
\* len(pockets) = meta.clusters and the pocket ids are pairwise distinct.
C8_SortedNotTruncated ==
    (Returned /\ IsFull) =>
        /\ \A k \in 1..(Len(result.pockets) - 1) :
              result.pockets[k].druggability >= result.pockets[k + 1].druggability
        /\ {result.pockets[k].id : k \in 1..Len(result.pockets)} = Range(labels) \ {-1}
        /\ \A k, l \in 1..Len(result.pockets) :
              k # l => result.pockets[k].id # result.pockets[l].id
        /\ "clusters" \in DOMAIN result.meta
        /\ Len(result.pockets) = result.meta.clusters

\* one fixed order of a set of residue keys: ascending sequence number
Ascending(S) ==
    CHOOSE o \in Orders(S) : \A a, b \in DOMAIN o : a < b => o[a][2] <= o[b][2]

\* what the call returns when every set is iterated in ascending order
ResultInAscendingOrder ==
    LET ids == SetToSeq(Range(labels) \ {-1})
    IN [pockets |-> SortPockets([k \in 1..Len(ids) |->
                                   Pocket(ids[k], Ascending(PocketRes(ids[k])))]),
        meta |-> [alpha_spheres |-> Len(centers), clusters |-> ClusterCount(labels)]]

\* C9: two runs on identical atoms and parameters return identical results
\* (pockets and their order, each residues list and its order, the scores):
\* the result does not depend on the order in which the sets are iterated, so
\* every run returns what the run iterating in ascending order returns.
C9_Deterministic ==
    (Returned /\ IsFull /\ Len(centers) > 0) => result = ResultInAscendingOrder

\* no centre has at least min_samples centres within eps, itself counted
NoCoreCentre ==
    \A k \in 1..Len(centers) :
        Cardinality({l \in 1..Len(centers) :
                        Dist2(centers[l], centers[k]) <= args.eps * args.eps})
            < args.min_samples

\* C10: if no alpha-sphere centre has min_samples centres within eps of it (in
\* particular when there are fewer than min_samples spheres), every sphere is
\* labelled -1 and the result has pockets = [], meta.clusters = 0 and
\* meta.alpha_spheres equal to the number of spheres.
C10_NoCoreNoPockets ==
    (Returned /\ IsFull /\ NoCoreCentre) =>
        /\ \A k \in 1..Len(labels) : labels[k] = -1
        /\ result.pockets = <<>>
        /\ result.meta.alpha_spheres = Len(centers)
        /\ "clusters" \in DOMAIN result.meta
        /\ result.meta.clusters = 0

\* ------------------------------------------ density clustering, as a definition
\* the points within e of point p, itself counted
NearOf(pts, e, p) == {k \in 1..Len(pts) : Dist2(pts[k], pts[p]) <= e * e}

\* p has at least m points within e
CoreOf(pts, e, m, p) == Cardinality(NearOf(pts, e, p)) >= m

\* the core points linked to S by a chain of core points, consecutive ones
\* within e of each other
RECURSIVE CoreClosureOf(_, _, _, _)
CoreClosureOf(pts, e, m, S) ==
    LET more == {k \in 1..Len(pts) :
                    CoreOf(pts, e, m, k) /\ \E s \in S : k \in NearOf(pts, e, s)}
    IN IF more \subseteq S THEN S ELSE CoreClosureOf(pts, e, m, S \cup more)

\* the points reachable from the core point s: within e of a core point that a
\* chain of core points links to s
ReachOf(pts, e, m, s) ==
    UNION {NearOf(pts, e, q) : q \in CoreClosureOf(pts, e, m, {s})}

\* the labels density clustering defines, with no worklist: the core points
\* not yet labelled are taken in ascending index order, and each gives its id
\* to the points reachable from it that carry no label yet
RECURSIVE AssignFrom(_, _, _, _, _, _)
AssignFrom(pts, e, m, ls, k, c) ==
    IF k > Len(pts) THEN ls
    ELSE IF ls[k] # -1 \/ ~CoreOf(pts, e, m, k)
         THEN AssignFrom(pts, e, m, ls, k + 1, c)
         ELSE LET reach == ReachOf(pts, e, m, k)
              IN AssignFrom(pts, e, m,
                            [p \in 1..Len(pts) |->
                               IF ls[p] = -1 /\ p \in reach THEN c ELSE ls[p]],
                            k + 1, c + 1)

DensityLabels(pts, e, m) ==
    AssignFrom(pts, e, m, [k \in 1..Len(pts) |-> -1], 1, 0)

\* cluster() has returned, to a direct caller or to Scientific_Pockets
ClusterReturned ==
    \/ pc = "cluster_done"
    \/ caller = "Scientific_Pockets" /\ pc \in {"score", "done"}

\* the ids of the clusters
ClusterIds == Range(labels) \ {-1}

\* the point that started cluster c: its core point of lowest index (a core
\* point of lower index would have started the cluster itself)
SeedOf(c) ==
    CHOOSE s \in 1..Len(points) :
        /\ labels[s] = c
        /\ CoreOf(points, eps, min_pts, s)
        /\ \A t \in 1..Len(points) :
              (labels[t] = c /\ CoreOf(points, eps, min_pts, t)) => s <= t

HasSeed(c) == \E s \in 1..Len(points) : labels[s] = c /\ CoreOf(points, eps, min_pts, s)

\* C15 as stated: every point reachable from the point that started a cluster
\* carries that cluster's id when cluster() returns, also a point that lies
\* within eps of a core point of another cluster.
C15_ReachableCarriesClusterId ==
    ClusterReturned =>
        \A c \in ClusterIds :
            /\ HasSeed(c)
            /\ \A p \in ReachOf(points, eps, min_pts, SeedOf(c)) : labels[p] = c

\* C15 amended: every point reachable from the point that started a cluster
\* carries that cluster's id when cluster() returns (points left as noise
\* earlier included), except a point that is not a core point and is also
\* within eps of a core point of a cluster started earlier: it keeps the id of
\* that earlier cluster.
C15_ReachableCarriesIdUnlessEarlier ==
    ClusterReturned =>
        \A c \in ClusterIds :
            /\ HasSeed(c)
            /\ \A p \in ReachOf(points, eps, min_pts, SeedOf(c)) :
                  \/ labels[p] = c
                  \/ /\ 0 <= labels[p]
                     /\ labels[p] < c
                     /\ ~CoreOf(points, eps, min_pts, p)
                     /\ \E q \in NearOf(points, eps, p) :
                           CoreOf(points, eps, min_pts, q) /\ labels[q] = labels[p]

\* cluster() has returned two clusters; a point visited before the seed of its
\* cluster was relabelled, and a point reachable from the seed of cluster 1
\* carries the id of cluster 0
C15_Witness ==
    /\ pc = "cluster_done"
    /\ ClusterIds = {0, 1}
    /\ \E p \in 1..Len(points) : labels[p] = 0 /\ p < SeedOf(0)
    /\ \E p \in ReachOf(points, eps, min_pts, SeedOf(1)) : labels[p] = 0

\* a core point lies within eps of p
NearCore(p) ==
    \E q \in NearOf(points, eps, p) : CoreOf(points, eps, min_pts, q)

\* C16: when cluster() returns, a point is labelled -1 exactly when it has
\* fewer than min_pts points within eps and no point within eps of it has
\* min_pts points within eps; and when the expansion of a cluster ends, every
\* point within eps of a core point of that cluster carries a label, also a
\* point the outer loop had left at -1.
C16_NoiseIffNoCoreNearby ==
    /\ ClusterReturned =>
          \A p \in 1..Len(points) : (labels[p] = -1) <=> ~NearCore(p)
    /\ (pc = "cluster_while" /\ stack = {}) =>
          \A p \in 1..Len(points) :
              (\E q \in NearOf(points, eps, p) :
                  CoreOf(points, eps, min_pts, q) /\ labels[q] = cid)
                  => labels[p] # -1

\* cluster() has returned: a point that is not a core point and was visited
\* before the seed of its cluster carries the cluster's id, another point is
\* noise
C16_Witness ==
    /\ pc = "cluster_done"
    /\ min_pts >= 2
    /\ \E p \in 1..Len(points) :
          /\ labels[p] >= 0
          /\ ~CoreOf(points, eps, min_pts, p)
          /\ p < SeedOf(labels[p])
    /\ \E p \in 1..Len(points) : labels[p] = -1

\* C20: the labels cluster() returns do not depend on the order in which
\* stack.pop() removes the points: whatever the order, they are the labels
\* that density clustering defines, and a point that is not a core point and
\* lies within eps of core points of several clusters carries the lowest of
\* their ids (the cluster whose seed has the lowest index).
C20_PopOrderIndependent ==
    ClusterReturned =>
        /\ labels = DensityLabels(points, eps, min_pts)
        /\ \A p \in 1..Len(points) :
              (NearCore(p) /\ ~CoreOf(points, eps, min_pts, p)) =>
                  \A q \in NearOf(points, eps, p) :
                      CoreOf(points, eps, min_pts, q) => labels[p] <= labels[q]
        /\ \A c, d \in ClusterIds : c < d => SeedOf(c) < SeedOf(d)

\* cluster() has returned and a point that is not a core point lies within eps
\* of core points of two clusters
C20_Witness ==
    /\ pc = "cluster_done"
    /\ \E p \in 1..Len(points) :
          /\ ~CoreOf(points, eps, min_pts, p)
          /\ \E q, r \in NearOf(points, eps, p) :
                /\ CoreOf(points, eps, min_pts, q)
                /\ CoreOf(points, eps, min_pts, r)
                /\ labels[q] # labels[r]

\* ----------------------------------------------------------- two groups
\* the points fall into two groups of at least m points each: two points of
\* one group are within e of each other, two points of different groups are
\* farther than e apart
TwoGroupsOf(pts, e, m) ==
    \E G \in SUBSET (1..Len(pts)) :
        LET H == (1..Len(pts)) \ G IN
        /\ Cardinality(G) >= m /\ Cardinality(H) >= m
        /\ G # {} /\ H # {}
        /\ \A a, b \in 1..Len(pts) :
              IF (a \in G) = (b \in G)
              THEN Dist2(pts[a], pts[b]) <= e * e
              ELSE Dist2(pts[a], pts[b]) > e * e

\* C11: when the centres fall into two groups of at least min_samples centres
\* each, any two centres of one group within eps of each other and any two of
\* different groups farther than eps apart, clustering yields exactly 2
\* distinct non-noise labels, the centres of a group share one label, and
\* Scientific_Pockets reports meta.clusters = 2 with two pockets.
C11_TwoGroupsTwoClusters ==
    (ClusterReturned /\ TwoGroupsOf(points, eps, min_pts)) =>
        /\ Cardinality(ClusterIds) = 2
        /\ \A a \in 1..Len(points) : labels[a] # -1
        /\ \A a, b \in 1..Len(points) :
              (labels[a] = labels[b]) <=> (Dist2(points[a], points[b]) <= eps * eps)
        /\ (caller = "Scientific_Pockets" /\ Returned) =>
              /\ IsFull
              /\ result.meta.clusters = 2
              /\ Len(result.pockets) = 2

\* Scientific_Pockets has returned two pockets for three centres in two groups
C11_Witness ==
    /\ Returned
    /\ caller = "Scientific_Pockets"
    /\ Len(centers) >= 3
    /\ TwoGroupsOf(points, eps, min_pts)
    /\ Len(result.pockets) = 2

\* ------------------------------------------------------- skipped simplices
\* the circumsphere of the simplex could be computed
GoodSimplex(s) == s.solved /\ ~s.nan

\* pocket q is the pocket of its id for these centres, radii and labels, the
\* order of its residues list left open
PocketFrom(cs, rs, ls, q) ==
    LET ref == PocketOf(cs, rs, ls, q.id, Ascending(PocketResOf(cs, ls, q.id)))
    IN /\ [q EXCEPT !.residues = ref.residues] = ref
       /\ Len(q.residues) = Len(ref.residues)
       /\ Range(q.residues) = Range(ref.residues)

\* the result is what Scientific_Pockets returns for these spheres alone: the
\* empty result for no sphere, otherwise one pocket for each cluster of their
\* centres, by descending druggability, and the two counts
ResultFrom(spheres) ==
    LET cs == [k \in 1..Len(spheres) |-> spheres[k].c]
        rs == [k \in 1..Len(spheres) |-> spheres[k].r]
        ls == DensityLabels(cs, args.eps, args.min_samples)
    IN IF Len(spheres) = 0 THEN result = EmptyResult
       ELSE /\ result.meta = [alpha_spheres |-> Len(cs),
                              clusters |-> Cardinality(Range(ls) \ {-1})]
            /\ Len(result.pockets) = Cardinality(Range(ls) \ {-1})
            /\ {result.pockets[k].id : k \in 1..Len(result.pockets)} = Range(ls) \ {-1}
            /\ \A k \in 1..Len(result.pockets) : PocketFrom(cs, rs, ls, result.pockets[k])
            /\ \A k \in 1..(Len(result.pockets) - 1) :
                  result.pockets[k].druggability >= result.pockets[k + 1].druggability

\* C12: a simplex whose circumsphere cannot be computed (the solve fails or the
\* radius is NaN) is skipped: it contributes no alpha-sphere, the other
\* simplices are processed, no exception and no error object is produced, and
\* the result is the result of the other simplices alone.
C12_BadSimplexSkipped ==
    ("filter" \in visited /\ \E k \in 1..Len(tri) : ~GoodSimplex(tri[k])) =>
        LET others == SelectSeq(tri, GoodSimplex)
            spheres == AlphaSpheres(others, args.min_radius, args.max_radius)
        IN /\ pc # "raised"
           /\ centers = [k \in 1..Len(spheres) |-> spheres[k].c]
           /\ radii = [k \in 1..Len(spheres) |-> spheres[k].r]
           /\ Returned => (~IsError /\ ResultFrom(spheres))

\* a pocket was returned although the solve failed on one simplex and the
\* radius of another was NaN
C12_Witness ==
    /\ Returned
    /\ IsFull
    /\ Len(result.pockets) >= 1
    /\ \E k \in 1..Len(tri) : ~tri[k].solved
    /\ \E k \in 1..Len(tri) : tri[k].solved /\ tri[k].nan

\* ------------------------------------------------------------- polarity
\* the residue keys of a set whose name, upper-cased, is one of the 20 names
Resolved(keys) == {key \in keys : Upper(key[3]) \in DOMAIN AA3}

\* polar_frac and avg_hydrophobicity of pocket q are what the residue keys of
\* its cluster give
PolarityAsDefined(q) ==
    LET resolved == Resolved(PocketRes(q.id))
        polar == {key \in resolved : KD[AA3[Upper(key[3])]] <= -5}
    IN IF resolved = {}
       THEN q.polar_frac = 0 /\ q.avg_hydrophobicity = 0
       ELSE /\ q.polar_frac = (Cardinality(polar) * Scale) \div Cardinality(resolved)
            /\ 0 <= q.polar_frac
            /\ q.polar_frac <= Scale

\* C13: for a pocket none of whose residues resolves to a hydrophobicity value
\* (or that has no residue), polar_frac = 0 and avg_hydrophobicity = 0;
\* otherwise polar_frac is the number of resolved residues with value <= -0.5
\* divided by the number of resolved residues, so 0 <= polar_frac <= 1.
C13_PolarFrac ==
    /\ \A k \in 1..Len(pockets) : PolarityAsDefined(pockets[k])
    /\ (Returned /\ IsFull) =>
          \A k \in 1..Len(result.pockets) : PolarityAsDefined(result.pockets[k])

\* two pockets were returned: one has no residue at all, the other has one
\* polar residue among two resolved ones, one of them written in lower case
C13_Witness ==
    /\ Returned
    /\ IsFull
    /\ \E k \in 1..Len(result.pockets) :
          result.pockets[k].residues = <<>> /\ result.pockets[k].polar_frac = 0
    /\ \E k \in 1..Len(result.pockets) :
          /\ result.pockets[k].polar_frac = 500
          /\ \E key \in PocketRes(result.pockets[k].id) : key[3] = "ser"

\* ------------------------------------------------------------ partition
\* the spheres labelled -1
NoiseSpheres == {k \in 1..Len(labels) : labels[k] = -1}

\* C17: clustering partitions the alpha-spheres: every sphere has one label,
\* the non-noise labels are exactly 0 .. meta.clusters - 1, given in ascending
\* order of the seed point's index, every pocket has n_spheres >= 1, and the
\* sum of n_spheres over the returned pockets plus the number of spheres
\* labelled -1 is meta.alpha_spheres.
C17_ClustersPartitionSpheres ==
    (caller = "Scientific_Pockets" /\ ClusterReturned) =>
        /\ Len(labels) = Len(centers)
        /\ \A k \in 1..Len(labels) : labels[k] >= -1
        /\ ClusterIds = 0..(Cardinality(ClusterIds) - 1)
        /\ \A c, d \in ClusterIds : c < d => SeedOf(c) < SeedOf(d)
        /\ \A k \in 1..Len(pockets) : pockets[k].n_spheres >= 1
        /\ Returned =>
              /\ IsFull
              /\ result.meta.clusters = Cardinality(ClusterIds)
              /\ \A k \in 1..Len(result.pockets) : result.pockets[k].n_spheres >= 1
              /\ SumSeq([k \in 1..Len(result.pockets) |-> result.pockets[k].n_spheres])
                    + Cardinality(NoiseSpheres) = result.meta.alpha_spheres

\* a pocket of two spheres was returned and a third sphere is noise
C17_Witness ==
    /\ Returned
    /\ caller = "Scientific_Pockets"
    /\ Len(result.pockets) = 1
    /\ result.pockets[1].n_spheres = 2
    /\ Cardinality(NoiseSpheres) = 1

\* --------------------------------------------------------------- volume
\* the member centres and radii of the pocket of label pid
CentresOf(pid) == [k \in 1..Cardinality(Members(pid)) |-> centers[SetToSeq(Members(pid))[k]]]
RadiiOf(pid) == [k \in 1..Cardinality(Members(pid)) |-> radii[SetToSeq(Members(pid))[k]]]

\* the grid samples within the radius of at least one of the spheres, every
\* sphere being tested
SamplesInside(cs, rs) ==
    {pt \in VoxelGrid(cs, rs, Resolution) :
        \E k \in 1..Len(cs) : Dist2(pt, cs[k]) <= rs[k] * rs[k]}

VolumeAsDefined(q) ==
    q.volume = Cardinality(SamplesInside(CentresOf(q.id), RadiiOf(q.id)))
                   * Resolution * Resolution * Resolution

\* C18: voxel_volume counts a grid sample exactly once when it lies within the
\* radius of at least one member sphere and not otherwise; testing only the
\* spheres whose centre is within max(radii) of the sample gives the count that
\* testing every member sphere gives; the volume is count * resolution^3, and 0
\* for an empty set of centres.
C18_VoxelVolume ==
    /\ voxel_volume(<<>>, <<>>, Resolution) = 0
    /\ (pc = "score" /\ pockets # <<>>) => VolumeAsDefined(pockets[Len(pockets)])
    /\ (Returned /\ IsFull) =>
          \A k \in 1..Len(result.pockets) : VolumeAsDefined(result.pockets[k])

\* a pocket was returned whose spheres overlap (two of them have one centre),
\* with a third sphere of another radius elsewhere
C18_Witness ==
    /\ Returned
    /\ IsFull
    /\ \E k \in 1..Len(result.pockets) :
          LET cs == CentresOf(result.pockets[k].id)
              rs == RadiiOf(result.pockets[k].id)
          IN /\ result.pockets[k].volume > 0
             /\ \E a, b \in 1..Len(cs) : a # b /\ cs[a] = cs[b]
             /\ \E a, b \in 1..Len(cs) : cs[a] # cs[b] /\ rs[a] # rs[b]

\* ------------------------------------------------------------- residues
\* the residue keys with an atom within 4.5 of the centre of a sphere labelled pid
KeysNear(pid) ==
    {key \in {ResKey(mol[a]) : a \in 1..Len(mol)} :
        \E a \in 1..Len(mol), k \in 1..Len(centers) :
            /\ ResKey(mol[a]) = key
            /\ labels[k] = pid
            /\ Dist2(Coords(mol)[a], centers[k]) <= 90 * 90}

ResiduesAsDefined(q) ==
    /\ Len(q.residues) = Cardinality(KeysNear(q.id))
    /\ Range(q.residues) =
          {key[3] \o ":" \o key[1] \o ToString(key[2]) : key \in KeysNear(q.id)}
    /\ \A a, b \in 1..Len(q.residues) : a # b => q.residues[a] # q.residues[b]

\* C19: a pocket's residues list has exactly one entry for each distinct
\* residue key (chain, resseq, resname) with at least one atom within 4.5 of
\* the centre of at least one member sphere, however many atoms or spheres
\* qualify, and no other entry; an entry is "RESNAME:CHAIN" followed by the
\* sequence number.
C19_ResiduesList ==
    /\ \A k \in 1..Len(pockets) : ResiduesAsDefined(pockets[k])
    /\ (Returned /\ IsFull) =>
          \A k \in 1..Len(result.pockets) : ResiduesAsDefined(result.pockets[k])

\* a pocket of two spheres was returned with the entries of two residues, one
\* of which has three atoms within 4.5 of both centres; another pocket has no
\* atom within 4.5 and lists no residue
C19_Witness ==
    /\ Returned
    /\ IsFull
    /\ Len(mol) >= 5
    /\ \E k \in 1..Len(result.pockets) :
          /\ result.pockets[k].n_spheres >= 2
          /\ Range(result.pockets[k].residues) = {"LEU:A1", "ser:A2"}
    /\ \E k \in 1..Len(result.pockets) : result.pockets[k].residues = <<>>

\* --------------------------------------------------------- docking flow
\* what the client has received and what result.json holds fit the outcome
\* of run_docking_job, and only a finished task is answered with a status
DockingAnswers ==
    \A d \in DockIds :
        /\ last[d] \in {"none", "404 Result not ready", "done", "error"}
        /\ last[d] \in {"done", "error"} => dock[d].st = "finished"
        /\ last[d] = "done" => dock[d].outcome = "returned"
        /\ last[d] = "error" => dock[d].outcome = "raised"
        /\ dock[d].st = "finished" =>
              /\ files[d] \in {"done", "error"}
              /\ (files[d] = "done") <=> (dock[d].outcome = "returned")
        /\ dock[d].st \in {"free", "scheduled", "running", "docked"} => files[d] = "absent"
        /\ (poll.d = d /\ poll.late) => poll.st # "not_ready"

\* a status once written or received does not change
DockingStatusKept ==
    \A d \in DockIds :
        /\ files[d] \in {"done", "error"} => files'[d] = files[d]
        /\ last[d] \in {"done", "error"} => last'[d] = last[d]

\* C14: after start_docking has answered queued with a docking id, the result
\* endpoint answers 404 "Result not ready" for that id until the background
\* task has finished; the task always finishes by writing a result with
\* status "done" (run_docking_job returned) or "error" (it raised); a client
\* never receives another status, and a status once written does not change.
C14_DockingFlow ==
    /\ []DockingAnswers
    /\ [][DockingStatusKept]_vars
    /\ \A d \in DockIds :
          (dock[d].st # "free") ~> (dock[d].st = "finished" /\ files[d] \in {"done", "error"})

\* the client has received "done" for one docking; for another it received 404
\* and that docking has since finished with "error"
C14_Witness ==
    \E d, f \in DockIds :
        /\ last[d] = "done"
        /\ last[f] = "404 Result not ready"
        /\ files[f] = "error"
        /\ dock[f].st = "finished"

\* ------------------------------------------------------------------- C21
\* a step of cluster() never changes a label that is already non-negative
LabelledOnce ==
    \A k \in 1..Len(labels) : labels[k] >= 0 => labels'[k] = labels[k]

\* a step of cluster() puts points on the worklist only when it gives a cluster
\* id to a point that was unlabelled
GrowsOnlyOnLabelling ==
    (stack' \ stack # {}) =>
        \E k \in 1..Len(labels) : labels[k] = -1 /\ labels'[k] >= 0

\* C21: cluster() terminates for every point set, eps and min_pts, min_pts <= 1
\* included: the worklist of each cluster eventually becomes empty and the call
\* returns, points are added to the worklist only when an unlabelled point is
\* labelled, and a point with a non-negative label is never labelled again.
C21_ClusterTerminates ==
    /\ [][LabelledOnce /\ GrowsOnlyOnLabelling]_vars
    /\ (pc = "cluster_while") ~> (stack = {})
    /\ <>(pc = "cluster_done")

\* cluster() has returned for min_pts <= 1 after building a cluster of several
\* points, all of them core points
C21_Witness ==
    /\ pc = "cluster_done"
    /\ min_pts <= 1
    /\ \E a, b \in 1..Len(points) : a # b /\ labels[a] = labels[b] /\ labels[a] >= 0

\* ------------------------------------------------------------------- C22
\* the positions of the lines of ls that start with prefix
StartingWith(ls, prefix) == {k \in 1..Len(ls) : startswith(ls[k], prefix)}

SetMin(S) == CHOOSE a \in S : \A b \in S : a <= b

\* how many lines of ls keep_first_model is to keep: all of them when no line
\* starts with MODEL; otherwise up to and including the first ENDMDL line after
\* the first MODEL line, or up to but excluding the second MODEL line,
\* whichever comes first
KeptLength(ls) ==
    IF StartingWith(ls, MODEL) = {} THEN Len(ls)
    ELSE LET first == SetMin(StartingWith(ls, MODEL))
             ends == {k \in StartingWith(ls, ENDMDL) : k > first}
             seconds == {k \in StartingWith(ls, MODEL) : k > first}
         IN SetMin(ends \cup {k - 1 : k \in seconds} \cup {Len(ls)})

\* C22: keep_first_model writes a prefix of the input lines, unchanged: the
\* whole input if no line starts with MODEL, otherwise the lines up to and
\* including the first ENDMDL line after the first MODEL line or up to but
\* excluding the second MODEL line, whichever comes first; the output holds at
\* most one MODEL line and every line that precedes the first MODEL line.
C22_KeepsFirstModel ==
    pc = "keep_done" =>
        /\ output_pdb = SubSeq(lines, 1, KeptLength(lines))
        /\ Cardinality(StartingWith(output_pdb, MODEL)) <= 1
        /\ \A k \in 1..Len(lines) :
              (\A m \in StartingWith(lines, MODEL) : k < m) =>
                  k <= Len(output_pdb) /\ output_pdb[k] = lines[k]

\* a file was written from an input in which lines precede the first MODEL
\* line and both an ENDMDL line and a second MODEL line follow it
C22_Witness ==
    /\ pc = "keep_done"
    /\ \E m \in StartingWith(lines, MODEL) :
          /\ m > 1
          /\ \A k \in StartingWith(lines, MODEL) : m <= k
          /\ \E k \in StartingWith(lines, ENDMDL) : k > m
          /\ \E k \in StartingWith(lines, MODEL) : k > m
          /\ Len(output_pdb) < Len(lines)

\* ------------------------------------------------------------------- C23
\* detect has handed the atoms of the uploaded structure to Scientific_Pockets
Handed == caller = "detect" /\ pc # "ready" /\ pc # "detect_404"

\* C23: for a molecule stored by upload_pdb, detect hands Scientific_Pockets
\* each atom with its x, y, z and with the chain id, residue number and residue
\* name parse_pdb recorded for it, so that two atoms of different residues of
\* the structure come with different residue keys.
C23_DetectKeepsResidueKeys ==
    Handed =>
        /\ Len(mol) = Len(structure)
        /\ \A k \in 1..Len(mol) :
              /\ <<mol[k].x, mol[k].y, mol[k].z>>
                    = <<structure[k].x, structure[k].y, structure[k].z>>
              /\ mol[k].chain = molecule_json.atoms[k].chain_id
              /\ mol[k].resseq = molecule_json.atoms[k].residue_number
              /\ mol[k].resname = molecule_json.atoms[k].residue_name
        /\ \A a, b \in 1..Len(mol) :
              <<structure[a].chain, structure[a].resseq, structure[a].resname>>
                 # <<structure[b].chain, structure[b].resseq, structure[b].resname>>
              => ResKey(mol[a]) # ResKey(mol[b])

====
